---- MODULE Spec2Model ----
(***************************************************************************)
(* Model of scripts/shuffle_options.py: main() and                         *)
(* shuffle_options_in_file().  The file system is a sequence of files (the *)
(* paths the invocation can name), each holding either nothing, text that  *)
(* is not JSON, or a JSON array of question objects.  A question is a      *)
(* mapping of named fields (a record whose DOMAIN is its set of keys).     *)
(* Indices into Python lists are zero-based, as in the source; TLA+        *)
(* sequences are one-based, so element i of a Python list is seq[i + 1].   *)
(***************************************************************************)
EXTENDS Integers, Sequences, FiniteSets, TLC

VARIABLES
    disk,          \* path -> stored file: [kind, questions, layout]
    original,      \* history: the disk before the first invocation
    atStart,       \* history: the disk when the current invocation started
    runs,          \* number of invocations started so far
    pc,            \* position of the running invocation
    mode,          \* "none" | "single" | "batch" (args.file given or not)
    fi,            \* batch mode: position in question_files of the next file
    cur,           \* file_path of the running shuffle_options_in_file call
    questions,     \* shuffle_options_in_file: the loaded list
    k,             \* shuffle_options_in_file: questions already iterated over
    option_pairs,  \* shuffle_options_in_file: local of the same name
    stdout,        \* messages printed by this invocation, in order
    exitcode,      \* -1 while running, then the process exit status
    exc            \* uncaught exception that ended the process, or "none"

vars == <<disk, original, atStart, runs, pc, mode, fi, cur, questions, k,
          option_pairs, stdout, exitcode, exc>>

----------------------------------------------------------------------------
(* Bounds of the model *)

MaxOpts == 3
MaxQs == 2
NFiles == 3
MaxRuns == 2

Values == {"A", "B", "C"}

----------------------------------------------------------------------------
(* Python helpers *)

\* variant: the type tag is not consulted
QualifiesAnyType(q) ==
    /\ "options" \in DOMAIN q
    /\ "correctIndex" \in DOMAIN q

\* question.get("type") == "multiple-choice" and "options" in question
\* and "correctIndex" in question
Qualifies(q) ==
    /\ "type" \in DOMAIN q
    /\ q.type = "multiple-choice"
    /\ "options" \in DOMAIN q
    /\ "correctIndex" \in DOMAIN q

\* variant: negative indices are rejected like too large ones
IndexNonNegative(options, correct_index) ==
    /\ correct_index < Len(options)
    /\ correct_index >= 0

\* options[correct_index] does not raise IndexError: Python accepts the
\* indices -len .. len-1.
IndexInRange(options, correct_index) ==
    /\ correct_index < Len(options)
    /\ correct_index >= 0 - Len(options)

\* variant: a pair is flagged when its value equals the correct answer
OptionPairsByValue(options, correct_index) ==
    [i \in 1..Len(options) |->
        <<options[i],
          options[i] = options[IF correct_index >= 0 THEN correct_index + 1
                               ELSE Len(options) + correct_index + 1]>>]

\* [(option, i == correct_index) for i, option in enumerate(options)]
OptionPairs(options, correct_index) ==
    [i \in 1..Len(options) |-> <<options[i], (i - 1) = correct_index>>]

\* The orderings random.shuffle can leave a list of n elements in.
Orderings(n) ==
    {p \in [1..n -> 1..n] : \A i, j \in 1..n : p[i] = p[j] => i = j}

\* variant: every position receives the element the ordering puts first
ShuffleRepeats(pairs, p) == [i \in 1..Len(pairs) |-> pairs[p[1]]]

\* random.shuffle(option_pairs), for the ordering p
Shuffle(pairs, p) == [i \in 1..Len(pairs) |-> pairs[p[i]]]

\* [pair[0] for pair in option_pairs]
PairValues(pairs) == [i \in 1..Len(pairs) |-> pairs[i][1]]

\* next(...) over an empty generator raises StopIteration
HasFlag(pairs) == \E i \in 1..Len(pairs) : pairs[i][2]

\* variant: the position is counted from one
FlagIndexOneBased(pairs) ==
    CHOOSE i \in 1..Len(pairs) :
        pairs[i][2] /\ \A j \in 1..(i - 1) : ~pairs[j][2]

\* next(i for i, pair in enumerate(option_pairs) if pair[1])
FlagIndex(pairs) ==
    (CHOOSE i \in 1..Len(pairs) :
        pairs[i][2] /\ \A j \in 1..(i - 1) : ~pairs[j][2]) - 1

\* json.load of a stored file that parses
Parsed(file) == file.questions

\* json.dump(questions, f, indent=4) over the truncated file
Dumped(qs) == [kind |-> "json", questions |-> qs, layout |-> "indent4"]

\* os.path.exists(file_path) / open(file_path) finds the file
Exists(f) == disk[f].kind # "missing"

\* print(...): the message and the file it is about (0: no file)
Emit(out, msg, f) == Append(out, <<msg, f>>)

----------------------------------------------------------------------------
(* Inputs *)

OptionLists == UNION {[1..n -> Values] : n \in 0..MaxOpts}

\* Every qualifying question over the option lists, with correctIndex ranging
\* over valid, too large, negative-in-range and too negative indices.
AllMultipleChoice ==
    {[type |-> "multiple-choice", question |-> "Q1", options |-> o,
      correctIndex |-> c] :
        o \in OptionLists, c \in (0 - (MaxOpts + 1))..(MaxOpts + 1)}

ShortAnswer == [type |-> "short-answer", question |-> "Q2"]
ShortWithOptions ==
    [type |-> "short-answer", question |-> "Q3", options |-> <<"A", "B">>,
     correctIndex |-> 0]
NoCorrectIndex ==
    [type |-> "multiple-choice", question |-> "Q4", options |-> <<"A", "B">>]
NoType == [question |-> "Q5", options |-> <<"A", "B">>, correctIndex |-> 1]
TwoOptions ==
    [type |-> "multiple-choice", question |-> "Q6", options |-> <<"A", "B">>,
     correctIndex |-> 1]
Duplicates ==
    [type |-> "multiple-choice", question |-> "Q7",
     options |-> <<"A", "A", "B">>, correctIndex |-> 0]
TooLarge ==
    [type |-> "multiple-choice", question |-> "Q8", options |-> <<"A", "B">>,
     correctIndex |-> 2]
Negative ==
    [type |-> "multiple-choice", question |-> "Q9", options |-> <<"A", "B">>,
     correctIndex |-> 0 - 1]
EmptyOptions ==
    [type |-> "multiple-choice", question |-> "Q10", options |-> <<>>,
     correctIndex |-> 0]

Untouched == {ShortAnswer, ShortWithOptions, NoCorrectIndex, NoType}
SampleQuestions ==
    Untouched \cup {TwoOptions, Duplicates, TooLarge, Negative, EmptyOptions}

Layouts == {"compact", "indent4"}
Missing == [kind |-> "missing", questions |-> <<>>, layout |-> "none"]
Garbage == [kind |-> "garbage", questions |-> <<>>, layout |-> "none"]
Json(qs, l) == [kind |-> "json", questions |-> qs, layout |-> l]

\* files of one question at most, over every multiple-choice question
QuestionFiles ==
    {Missing, Garbage, Json(<<>>, "compact")}
        \cup {Json(<<q>>, "compact") : q \in AllMultipleChoice \cup Untouched}

\* files of up to MaxQs sample questions
SampleFiles ==
    {Missing, Garbage}
        \cup {Json(qs, l) :
                 qs \in UNION {[1..n -> SampleQuestions] : n \in 0..MaxQs},
                 l \in Layouts}

\* the files a batch is made of
BatchFiles ==
    {Missing, Garbage, Json(<<ShortAnswer>>, "compact"),
     Json(<<TwoOptions>>, "compact"), Json(<<TwoOptions, TooLarge>>, "indent4"),
     Json(<<Negative>>, "compact")}

----------------------------------------------------------------------------
(* State after the files are in place and before the first invocation *)

InitWith(disks) ==
    /\ disk \in disks
    /\ original = disk
    /\ atStart = disk
    /\ runs = 1
    /\ pc = "start"
    /\ mode = "none"
    /\ fi = 0
    /\ cur = 0
    /\ questions = <<>>
    /\ k = 0
    /\ option_pairs = <<>>
    /\ stdout = <<>>
    /\ exitcode = 0 - 1
    /\ exc = "none"

Init == InitWith(UNION {[1..n -> SampleFiles] : n \in 0..1})
InitQuestion == InitWith(UNION {[1..n -> QuestionFiles] : n \in 0..1})
InitBatch == InitWith(UNION {[1..n -> BatchFiles] : n \in 0..NFiles})

----------------------------------------------------------------------------
(* main() *)

Locals == <<questions, k, option_pairs>>
History == <<original, atStart, runs>>

\* the process ends: sys.exit(status), return from main, or a traceback
Exit(status, e) ==
    /\ pc' = "done"
    /\ exitcode' = status
    /\ exc' = e

\* args.file names a path that does not exist
MainSingleNotFound ==
    /\ pc = "start"
    /\ \E f \in DOMAIN disk :
        /\ ~Exists(f)
        /\ mode' = "single"
        /\ cur' = f
        /\ stdout' = Emit(stdout, "Error: File not found.", f)
    /\ Exit(1, "none")
    /\ UNCHANGED <<disk, fi, Locals, History>>

\* args.file names an existing path: shuffle_options_in_file(file_path)
MainSingleCall ==
    /\ pc = "start"
    /\ \E f \in DOMAIN disk :
        /\ Exists(f)
        /\ mode' = "single"
        /\ cur' = f
        /\ stdout' = Emit(Emit(stdout, "Processing single file", f),
                          "Processing file", f)
    /\ pc' = "load"
    /\ UNCHANGED <<disk, fi, Locals, History, exitcode, exc>>

\* single-file mode, after shuffle_options_in_file returned
MainSingleReturn ==
    /\ pc = "returned"
    /\ mode = "single"
    /\ stdout' = Emit(stdout, "File processed successfully!", 0)
    /\ Exit(0, "none")
    /\ UNCHANGED <<disk, mode, fi, cur, Locals, History>>

\* no args.file and the glob matches nothing
MainBatchNoFiles ==
    /\ pc = "start"
    /\ DOMAIN disk = {}
    /\ mode' = "batch"
    /\ stdout' = Emit(stdout, "No question files found", 0)
    /\ Exit(1, "none")
    /\ UNCHANGED <<disk, fi, cur, Locals, History>>

\* no args.file: question_files is every path of the data directory
MainBatchFound ==
    /\ pc = "start"
    /\ DOMAIN disk # {}
    /\ mode' = "batch"
    /\ fi' = 1
    /\ stdout' = Emit(stdout, "Found question file(s)", Len(disk))
    /\ pc' = "batch"
    /\ UNCHANGED <<disk, cur, Locals, History, exitcode, exc>>

\* for file_path in question_files: shuffle_options_in_file(file_path)
MainBatchCall ==
    /\ pc = "batch"
    /\ fi <= Len(disk)
    /\ cur' = fi
    /\ fi' = fi + 1
    /\ stdout' = Emit(stdout, "Processing file", fi)
    /\ pc' = "load"
    /\ UNCHANGED <<disk, mode, Locals, History, exitcode, exc>>

\* batch mode, after shuffle_options_in_file returned
MainBatchReturn ==
    /\ pc = "returned"
    /\ mode = "batch"
    /\ pc' = "batch"
    /\ UNCHANGED <<disk, mode, fi, cur, Locals, History, stdout, exitcode, exc>>

\* the loop over question_files is exhausted
MainBatchDone ==
    /\ pc = "batch"
    /\ fi > Len(disk)
    /\ stdout' = Emit(stdout, "All files processed successfully!", 0)
    /\ Exit(0, "none")
    /\ UNCHANGED <<disk, mode, fi, cur, Locals, History>>

----------------------------------------------------------------------------
(* shuffle_options_in_file(file_path) *)

\* variant: the options are replaced and correctIndex is left as it was
ReindexedKeepsIndex(q, pairs) == [q EXCEPT !.options = PairValues(pairs)]

\* question["options"] = ...; question["correctIndex"] = next(...)
Reindexed(q, pairs) ==
    [q EXCEPT !.options = PairValues(pairs), !.correctIndex = FlagIndex(pairs)]

\* question["options"] = ... alone: next(...) raised before the second store
OptionsStored(q, pairs) == [q EXCEPT !.options = PairValues(pairs)]

\* with open(file_path, 'r') as f: questions = json.load(f)
LoadQuestions ==
    /\ pc = "load"
    /\ disk[cur].kind = "json"
    /\ questions' = Parsed(disk[cur])
    /\ k' = 0
    /\ option_pairs' = <<>>
    /\ pc' = "loop"
    /\ UNCHANGED <<disk, mode, fi, cur, History, stdout, exitcode, exc>>

\* except json.JSONDecodeError: print and return
LoadNotJson ==
    /\ pc = "load"
    /\ disk[cur].kind = "garbage"
    /\ stdout' = Emit(stdout, "Error: not a valid JSON file.", cur)
    /\ questions' = <<>>
    /\ k' = 0
    /\ option_pairs' = <<>>
    /\ pc' = "returned"
    /\ UNCHANGED <<disk, mode, fi, cur, History, exitcode, exc>>

\* except FileNotFoundError: print and return
LoadNotFound ==
    /\ pc = "load"
    /\ disk[cur].kind = "missing"
    /\ stdout' = Emit(stdout, "Error: File not found.", cur)
    /\ questions' = <<>>
    /\ k' = 0
    /\ option_pairs' = <<>>
    /\ pc' = "returned"
    /\ UNCHANGED <<disk, mode, fi, cur, History, exitcode, exc>>

\* for question in questions: the predicate is false, nothing is done
SkipQuestion ==
    /\ pc = "loop"
    /\ k < Len(questions)
    /\ ~Qualifies(questions[k + 1])
    /\ k' = k + 1
    /\ UNCHANGED <<disk, mode, fi, cur, questions, option_pairs, History,
                   stdout, pc, exitcode, exc>>

\* variant: the questions iterated so far are written before the error leaves
RaiseIndexErrorAfterWrite ==
    /\ pc = "loop"
    /\ k < Len(questions)
    /\ Qualifies(questions[k + 1])
    /\ ~IndexInRange(questions[k + 1].options, questions[k + 1].correctIndex)
    /\ disk' = [disk EXCEPT ![cur] = Dumped(questions)]
    /\ Exit(1, "IndexError")
    /\ UNCHANGED <<mode, fi, cur, Locals, History, stdout>>

\* correct_answer = options[correct_index] raises IndexError, uncaught
RaiseIndexError ==
    /\ pc = "loop"
    /\ k < Len(questions)
    /\ Qualifies(questions[k + 1])
    /\ ~IndexInRange(questions[k + 1].options, questions[k + 1].correctIndex)
    /\ Exit(1, "IndexError")
    /\ UNCHANGED <<disk, mode, fi, cur, Locals, History, stdout>>

\* the pairs are built and shuffled, the options stored, the index found
ShuffleQuestion ==
    /\ pc = "loop"
    /\ k < Len(questions)
    /\ LET q == questions[k + 1] IN
        /\ Qualifies(q)
        /\ IndexInRange(q.options, q.correctIndex)
        /\ \E p \in Orderings(Len(q.options)) :
            LET pairs == Shuffle(OptionPairs(q.options, q.correctIndex), p) IN
            /\ HasFlag(pairs)
            /\ option_pairs' = pairs
            /\ questions' = [questions EXCEPT ![k + 1] = Reindexed(q, pairs)]
    /\ k' = k + 1
    /\ UNCHANGED <<disk, mode, fi, cur, History, stdout, pc, exitcode, exc>>

\* the pairs are built and shuffled, the options stored, and next(...) finds
\* no flagged pair: StopIteration, uncaught
RaiseStopIteration ==
    /\ pc = "loop"
    /\ k < Len(questions)
    /\ LET q == questions[k + 1] IN
        /\ Qualifies(q)
        /\ IndexInRange(q.options, q.correctIndex)
        /\ \E p \in Orderings(Len(q.options)) :
            LET pairs == Shuffle(OptionPairs(q.options, q.correctIndex), p) IN
            /\ ~HasFlag(pairs)
            /\ option_pairs' = pairs
            /\ questions' = [questions EXCEPT ![k + 1] = OptionsStored(q, pairs)]
    /\ Exit(1, "StopIteration")
    /\ UNCHANGED <<disk, mode, fi, cur, k, History, stdout>>

\* with open(file_path, 'w') as f: json.dump(questions, f, indent=4); return
WriteBack ==
    /\ pc = "loop"
    /\ k = Len(questions)
    /\ disk' = [disk EXCEPT ![cur] = Dumped(questions)]
    /\ stdout' = Emit(stdout, "File processed", cur)
    /\ pc' = "returned"
    /\ UNCHANGED <<mode, fi, cur, Locals, History, exitcode, exc>>

\* the script is run again on the files as the last invocation left them
RunAgain ==
    /\ pc = "done"
    /\ runs < MaxRuns
    /\ runs' = runs + 1
    /\ atStart' = disk
    /\ pc' = "start"
    /\ mode' = "none"
    /\ fi' = 0
    /\ cur' = 0
    /\ questions' = <<>>
    /\ k' = 0
    /\ option_pairs' = <<>>
    /\ stdout' = <<>>
    /\ exitcode' = 0 - 1
    /\ exc' = "none"
    /\ UNCHANGED <<disk, original>>

Next ==
    \/ MainSingleNotFound
    \/ MainSingleCall
    \/ MainSingleReturn
    \/ MainBatchNoFiles
    \/ MainBatchFound
    \/ MainBatchCall
    \/ MainBatchReturn
    \/ MainBatchDone
    \/ LoadQuestions
    \/ LoadNotJson
    \/ LoadNotFound
    \/ SkipQuestion
    \/ RaiseIndexError
    \/ ShuffleQuestion
    \/ RaiseStopIteration
    \/ WriteBack
    \/ RunAgain

\* one file of up to MaxQs sample questions
Spec == Init /\ [][Next]_vars
\* one file of at most one question, over every multiple-choice question
SpecQuestion == InitQuestion /\ [][Next]_vars
\* a data directory of up to NFiles files
SpecBatch == InitBatch /\ [][Next]_vars

----------------------------------------------------------------------------
(* Vocabulary of the properties *)

\* 0 <= correctIndex < len(options)
InBounds(q) == q.correctIndex >= 0 /\ q.correctIndex < Len(q.options)
OutOfBounds(q) == Qualifies(q) /\ ~InBounds(q)

\* the question is left alone: its type is not "multiple-choice" (or it has
\* none), or options is missing, or correctIndex is missing
FailsPredicate(q) ==
    \/ "type" \notin DOMAIN q
    \/ ("type" \in DOMAIN q /\ q.type # "multiple-choice")
    \/ "options" \notin DOMAIN q
    \/ "correctIndex" \notin DOMAIN q

\* the option the question marks correct (Python's zero-based index)
CorrectValue(q) == q.options[q.correctIndex + 1]

Count(seq, v) == Cardinality({i \in 1..Len(seq) : seq[i] = v})
Range(seq) == {seq[i] : i \in 1..Len(seq)}
SameBag(s, t) ==
    /\ Len(s) = Len(t)
    /\ \A v \in Range(s) \cup Range(t) : Count(s, v) = Count(t, v)

FlagCount(pairs) == Cardinality({i \in 1..Len(pairs) : pairs[i][2]})

\* this invocation printed msg about file f
Printed(msg, f) == \E i \in 1..Len(stdout) : stdout[i] = <<msg, f>>
\* this invocation loaded, transformed and rewrote file f
Written(f) == Printed("File processed", f)

\* a file that parses and whose qualifying questions are all in bounds
ValidFile(file) ==
    /\ file.kind = "json"
    /\ \A j \in 1..Len(file.questions) :
        Qualifies(file.questions[j]) => InBounds(file.questions[j])

\* question j of file f before this invocation, and as stored now
Pre(f, j) == atStart[f].questions[j]
Post(f, j) == disk[f].questions[j]

----------------------------------------------------------------------------
(* C1 - C2, C7, C9: the transformation of one question (SpecQuestion) *)

\* C1 Correctness-preservation: in every file an invocation has rewritten,
\* each question that qualified with 0 <= correctIndex < len(options) has,
\* at its new correctIndex, the option value that was at its old
\* correctIndex, whichever ordering the shuffle chose.
C1_CorrectnessPreserved ==
    \A f \in DOMAIN disk : Written(f) =>
        \A j \in 1..Len(atStart[f].questions) :
            (Qualifies(Pre(f, j)) /\ InBounds(Pre(f, j))) =>
                /\ InBounds(Post(f, j))
                /\ CorrectValue(Post(f, j)) = CorrectValue(Pre(f, j))

\* a rewritten question with a duplicated option value whose correct answer
\* moved to another position
C1_Witness ==
    \E f \in DOMAIN disk :
        /\ Written(f)
        /\ \E j \in 1..Len(atStart[f].questions) :
            /\ Qualifies(Pre(f, j)) /\ InBounds(Pre(f, j))
            /\ Cardinality(Range(Pre(f, j).options)) < Len(Pre(f, j).options)
            /\ Post(f, j).correctIndex # Pre(f, j).correctIndex
            /\ Post(f, j).options # Pre(f, j).options

\* C2 Value-preservation: in every file an invocation has rewritten, each
\* question that qualified in bounds holds the same multiset of option
\* values as before (same length, every value the same number of times).
C2_ValuesPreserved ==
    \A f \in DOMAIN disk : Written(f) =>
        \A j \in 1..Len(atStart[f].questions) :
            (Qualifies(Pre(f, j)) /\ InBounds(Pre(f, j))) =>
                SameBag(Post(f, j).options, Pre(f, j).options)

\* a rewritten question of three or more options, two of them equal, in a new order
C2_Witness ==
    \E f \in DOMAIN disk :
        /\ Written(f)
        /\ \E j \in 1..Len(atStart[f].questions) :
            /\ Qualifies(Pre(f, j)) /\ InBounds(Pre(f, j))
            /\ Len(Pre(f, j).options) >= 3
            /\ Cardinality(Range(Pre(f, j).options)) = 2
            /\ Post(f, j).options # Pre(f, j).options

\* no out-of-bounds question is iterated past
NeverPassedOver ==
    pc = "loop" => \A j \in 1..k : ~OutOfBounds(Pre(cur, j))

\* C7 as stated: an out-of-bounds correctIndex (too large, negative, or any
\* index into empty options) always ends the process with an IndexError,
\* and the question is left as it was.
C7_AlwaysIndexError ==
    /\ NeverPassedOver
    /\ exc # "none" =>
        /\ OutOfBounds(Pre(cur, k + 1))
        /\ exc = "IndexError"
        /\ questions[k + 1] = Pre(cur, k + 1)

\* C7 amended: an out-of-bounds correctIndex always ends the process with
\* an uncaught error and exit status 1: IndexError when correctIndex >=
\* len(options) or correctIndex < -len(options), the question untouched;
\* StopIteration when -len(options) <= correctIndex < 0, the options in
\* memory already permuted.  In both cases correctIndex is never changed
\* and the file is not rewritten.
C7_HardFailure ==
    /\ NeverPassedOver
    /\ exc # "none" =>
        LET pre == Pre(cur, k + 1)
            now == questions[k + 1]
        IN  /\ OutOfBounds(pre)
            /\ pc = "done" /\ exitcode = 1
            /\ exc = IF pre.correctIndex < 0
                         /\ pre.correctIndex + Len(pre.options) >= 0
                      THEN "StopIteration" ELSE "IndexError"
            /\ exc = "IndexError" => now = pre
            /\ now.correctIndex = pre.correctIndex
            /\ SameBag(now.options, pre.options)
            /\ disk[cur] = atStart[cur]

\* a negative correctIndex ended the process after the options were permuted
C7_Witness ==
    /\ exc = "StopIteration"
    /\ Pre(cur, k + 1).correctIndex < 0
    /\ questions[k + 1].options # Pre(cur, k + 1).options

\* C9 as stated: whenever reading options[correctIndex] succeeded, the
\* paired list built from the question holds exactly one flagged pair.
C9_OneFlagWheneverReadSucceeds ==
    option_pairs # <<>> => FlagCount(option_pairs) = 1

\* C9 amended: for every qualifying question with 0 <= correctIndex <
\* len(options), the paired list holds exactly one flagged pair, the search
\* after the shuffle finds it, and correctIndex is set to its position.
C9_OneFlagWhenInBounds ==
    /\ (pc = "loop" /\ k >= 1 /\ Qualifies(Pre(cur, k)) /\ InBounds(Pre(cur, k))) =>
        /\ Len(option_pairs) = Len(Pre(cur, k).options)
        /\ FlagCount(option_pairs) = 1
        /\ InBounds(questions[k])
        /\ option_pairs[questions[k].correctIndex + 1][2]
    /\ exc # "none" =>
        ~(Qualifies(Pre(cur, k + 1)) /\ InBounds(Pre(cur, k + 1)))

\* an in-bounds question whose correct value occurs twice has been shuffled
C9_Witness ==
    /\ pc = "loop" /\ k >= 1
    /\ Qualifies(Pre(cur, k)) /\ InBounds(Pre(cur, k))
    /\ Count(Pre(cur, k).options, CorrectValue(Pre(cur, k))) >= 2
    /\ questions[k].correctIndex # Pre(cur, k).correctIndex

----------------------------------------------------------------------------
(* C3, C4, C10: one file of several questions, run repeatedly (Spec) *)

\* C3 Non-interference: in every file an invocation has rewritten, (c) the
\* questions are as many and in the same order as before, (a) a question
\* failing the predicate is identical to its input, and (b) a qualifying
\* question has the same fields, all but options and correctIndex unchanged.
C3_NonInterference ==
    \A f \in DOMAIN disk : Written(f) =>
        /\ Len(disk[f].questions) = Len(atStart[f].questions)
        /\ \A j \in 1..Len(atStart[f].questions) :
            /\ FailsPredicate(Pre(f, j)) => Post(f, j) = Pre(f, j)
            /\ ~FailsPredicate(Pre(f, j)) =>
                /\ DOMAIN Post(f, j) = DOMAIN Pre(f, j)
                /\ \A fld \in DOMAIN Pre(f, j) \ {"options", "correctIndex"} :
                    Post(f, j)[fld] = Pre(f, j)[fld]

\* a rewritten file holding a short-answer question that carries options
\* next to a multiple-choice question whose options moved
C3_Witness ==
    /\ pc = "done"
    /\ \E f \in DOMAIN disk :
        /\ Written(f)
        /\ Len(atStart[f].questions) >= 2
        /\ \E i, j \in 1..Len(atStart[f].questions) :
            /\ Pre(f, i) = ShortWithOptions
            /\ ~FailsPredicate(Pre(f, j))
            /\ Post(f, j).options # Pre(f, j).options

\* after any number of invocations: the stored questions correspond to the
\* original ones in bag of options and in correct value
PreservedSinceOriginal(f) ==
    /\ Len(disk[f].questions) = Len(original[f].questions)
    /\ \A j \in 1..Len(original[f].questions) :
        Qualifies(original[f].questions[j]) =>
            /\ Qualifies(Post(f, j))
            /\ SameBag(Post(f, j).options, original[f].questions[j].options)
            /\ CorrectValue(Post(f, j)) = CorrectValue(original[f].questions[j])

\* C4 Closure under re-running: a file whose qualifying questions are all in
\* bounds before the first invocation has them in bounds after every
\* invocation, no invocation fails on it, and after each invocation the
\* value- and correctness-preservation hold relative to the original file.
C4_ClosedUnderRerun ==
    \A f \in DOMAIN disk : ValidFile(original[f]) =>
        /\ ValidFile(disk[f])
        /\ PreservedSinceOriginal(f)
        /\ cur = f => exc = "none"
        /\ (pc = "returned" /\ cur = f) => Written(f)

\* a second invocation rewrote a file that the first one had already
\* reordered, and reordered it again
C4_Witness ==
    /\ runs >= 2
    /\ pc = "done"
    /\ \E f \in DOMAIN disk :
        /\ ValidFile(original[f])
        /\ Written(f)
        /\ \E j \in 1..Len(original[f].questions) :
            /\ Qualifies(original[f].questions[j])
            /\ Pre(f, j).options # original[f].questions[j].options
            /\ Post(f, j).options # Pre(f, j).options

\* C10 All-or-nothing persistence: a file is stored changed only by the
\* write that follows the transformation of all its questions; while its
\* questions are iterated, and when an uncaught error ends the iteration at
\* question k, the stored file is exactly the file before the invocation.
C10_AllOrNothing ==
    /\ \A f \in DOMAIN disk :
        disk[f] # atStart[f] =>
            /\ Written(f)
            /\ ValidFile(atStart[f])
            /\ Len(disk[f].questions) = Len(atStart[f].questions)
    /\ pc \in {"load", "loop"} => disk[cur] = atStart[cur]
    /\ exc # "none" => disk[cur] = atStart[cur]

\* an error ended the iteration after an earlier question of the file had
\* been reordered in memory
C10_Witness ==
    /\ exc # "none"
    /\ k >= 1
    /\ questions[1] # Pre(cur, 1)
    /\ disk[cur] = atStart[cur]

----------------------------------------------------------------------------
(* C5, C6, C8: the driver over a data directory (SpecBatch) *)

\* C5 Per-file isolation: when a batch invocation has ended, every file of
\* the batch that parses and has its questions in bounds has been loaded,
\* transformed and rewritten, whatever happened to the other files.
C5_BatchNeverAborted ==
    (mode = "batch" /\ pc = "done") =>
        \A f \in DOMAIN disk : ValidFile(atStart[f]) => Written(f)

\* C6 ParseError skip: when a batch invocation has ended, every file that
\* is not valid JSON has been reported and is stored unchanged, and every
\* valid file of the batch, before or after it, has been rewritten.
C6_ParseErrorSkipped ==
    (mode = "batch" /\ pc = "done") =>
        \A f \in DOMAIN disk : atStart[f].kind = "garbage" =>
            /\ Printed("Error: not a valid JSON file.", f)
            /\ disk[f] = atStart[f]
            /\ \A g \in DOMAIN disk \ {f} : ValidFile(atStart[g]) => Written(g)

\* C8 Single-file errors: when the one file given does not exist, is not
\* valid JSON or has an out-of-bounds question, the invocation never prints
\* "File processed successfully!" and ends with a non-zero status.
C8_SingleFileErrorsFail ==
    (mode = "single" /\ ~ValidFile(atStart[cur])) =>
        /\ ~Printed("File processed successfully!", 0)
        /\ pc = "done" => exitcode # 0

====
